---- MODULE Spec2Model ----
(***************************************************************************)
(* Orbital camera controller, procedural geometry generators and scene     *)
(* (simulation time, orbital motion, hover, lock, camera target) of the    *)
(* solar-system demo (src/script.js; src/unnamed/part_000 is the earlier   *)
(* version with the same camera and generator code).                       *)
(*                                                                         *)
(* Numbers.  The program computes with IEEE doubles; the model computes    *)
(* with fixed-point integers:                                              *)
(*   angles and angular velocities  1 unit = 2e-9 rad                      *)
(*   camera radii                   1 unit = 1e-5 world units              *)
(*   mesh coordinates, UVs, trig    1 unit = 1e-4                          *)
(*   world positions, orbit angles  1 unit = 1e-4                          *)
(*   times                          1 unit = 1 ms                          *)
(*   time-scale, orbital periods    1 unit = 0.01                          *)
(* Products with a fractional factor are truncated toward zero,            *)
(* symmetrically in the sign, where the double would be rounded.           *)
(***************************************************************************)
EXTENDS Integers, Sequences, FiniteSets, TLC

VARIABLES
    yaw, pitch,             \* camera angles
    yawVel, pitchVel,       \* angular momentum
    radiusCam, targetRadius,\* smoothed and requested zoom distance
    dragging, lastX, lastY, \* drag gesture
    frames,                 \* number of render() calls so far
    geomIn,                 \* arguments the meshes are generated with
    sphere, skySphere, ring,\* the generated meshes
    geomPc,                 \* how many of the three meshes are built
    idxCell,                \* one cell of an index array as it is stored
    pointerX, pointerY,     \* pointer location kept for hover detection
    hoveredPlanet,          \* name of the body under the pointer, or Null
    lockedPlanet,           \* name of the body the camera follows, or Null
    cameraTarget,           \* smoothed look-at point <<x, y, z>>
    simTime,                \* simulation time (ms)
    lastRealTime,           \* clock reading of the last frame or pause click
    clock,                  \* performance.now() (ms since load)
    paused,
    orbitSlowdown,          \* time-scale applied by the frames (hundredths)
    pendingOrbit,           \* slider value not yet applied (hundredths)
    phase,                  \* p.phase of every planet, drawn at load
    drawn,                  \* what the last frame computed for every planet
    viewPitch,              \* pitch the last frame built the view from
    lastSync,               \* history: clock reading at the latest frame or
                            \* pause-button click, whatever the code stored
    sunEmissive,            \* sun brightness (hundredths)
    orbitLabel,             \* number shown by the time-dilation label
    tooltip,                \* style and text of the tooltip element
    rafPending,             \* render callbacks requested and not yet run
    texture,                \* content of every texture handle
    imgState                \* state of the Image behind every handle

camVars == <<yaw, pitch, yawVel, pitchVel, radiusCam, targetRadius,
             dragging, lastX, lastY>>
geomVars == <<geomIn, sphere, skySphere, ring, geomPc, idxCell>>
pointerVars == <<pointerX, pointerY>>
timeVars == <<simTime, lastRealTime, clock, paused, orbitSlowdown,
              pendingOrbit, phase, lastSync, sunEmissive, orbitLabel>>
frameVars == <<hoveredPlanet, cameraTarget, drawn, viewPitch, tooltip,
               rafPending>>
assetVars == <<texture, imgState>>
sceneVars == <<pointerX, pointerY, hoveredPlanet, lockedPlanet, cameraTarget,
               simTime, lastRealTime, clock, paused, orbitSlowdown,
               pendingOrbit, phase, drawn, viewPitch, lastSync, sunEmissive,
               orbitLabel, tooltip, rafPending, texture, imgState>>
vars == <<yaw, pitch, yawVel, pitchVel, radiusCam, targetRadius,
          dragging, lastX, lastY, frames, geomIn, sphere, skySphere, ring,
          geomPc, idxCell, pointerX, pointerY, hoveredPlanet, lockedPlanet,
          cameraTarget, simTime, lastRealTime, clock, paused, orbitSlowdown,
          pendingOrbit, phase, drawn, viewPitch, lastSync, sunEmissive,
          orbitLabel, tooltip, rafPending, texture, imgState>>

(***************************************************************************)
(* Bounds of the model                                                     *)
(***************************************************************************)
MaxFrames == 1          \* render frames explored under Spec
AngleCap == 1000000000  \* |yaw|, |pitch| a pointer-move may reach (2 rad)
DecaySpan == 300        \* render frames explored under SpecDecay
ZoomSpan == 120         \* render frames explored under SpecZoom
WheelWindow == 2        \* frames during which SpecZoom still delivers wheel events

ClientPts == {<<0, 0>>, <<300, 1200>>}  \* pointer positions (pixels)
WheelDeltas == {-400, 400}      \* wheel deltaY values
MaxBands == 4           \* largest band / segment count tried
BandCounts == (-1)..MaxBands     \* band / segment counts tried
SphereRadii == {-10000, 0, 10000, 25000}        \* radius arguments
RingRadii == {<<13000, 25000>>, <<0, 10000>>}   \* <<innerR, outerR>>
RadialTol == 5           \* 0.0005: rounding allowed in a vertex's distance from the axis
DecayDeltas == {-100, -1, 0, 1, 100}  \* last drag delta before release (pixels)
DecayBound == 263       \* frames within which momentum has died out
HoldDeltas == {-1, 0, 1}        \* drag delta of a gesture under SpecHold (pixels)
ZoomBound == 68         \* frames within which the zoom has settled
ZoomEps == 1000         \* 0.01: the distance that counts as settled
SceneFrames == 2        \* render frames explored under SpecScene
PauseFrames == 3        \* render frames explored under SpecPause
FollowSpan == 80        \* render frames explored under SpecFollow
ClickWindow == 3        \* frames during which SpecFollow still delivers input
FollowBound == 54       \* frames within which an unlocked target has settled
TargetEps == 100        \* 0.01: the distance that counts as settled
MaxClock == 7300        \* largest clock reading (ms) the model lets real time reach
TickSteps == {3650}     \* real time that passes in one step (ms)
OrbitValues == {50, 100}        \* time-dilation slider values (hundredths)
SunValues == {200, 300}         \* sun-brightness slider values (hundredths)
LoopFrames == 2         \* frames of SpecLoop
IndexBands == {1, 2, 36, 255, 256}      \* band counts of SpecIndex
IndexSegments == {1, 128, 32767, 40000} \* ring segment counts of SpecIndex
DragFrames == 2         \* frames of SpecDrag
DragPts == {<<0, 0>>, <<40, -30>>, <<-25, 60>>}  \* pointer positions of a drag
HoverFrames == 3        \* frames of SpecHover
LoopPt == <<300, 1200>>  \* where the pointer goes in SpecLoop
PhaseChoices == {<<0, 15708>>, <<47124, 31416>>}    \* p.phase of the planets

(***************************************************************************)
(* Arithmetic helpers                                                      *)
(***************************************************************************)
Abs(x) == IF x < 0 THEN -x ELSE x
Sgn(x) == IF x < 0 THEN -1 ELSE IF x > 0 THEN 1 ELSE 0
Max(a, b) == IF a >= b THEN a ELSE b
Min(a, b) == IF a <= b THEN a ELSE b

\* x * num / den, truncated toward zero, without leaving 32 bits
Scale(x, num, den) ==
    Sgn(x) * ((Abs(x) \div den) * num + ((Abs(x) % den) * num) \div den)

(***************************************************************************)
(* Camera constants                                                        *)
(***************************************************************************)
UnitsPerRad == 500000000
HalfPi == 785398163             \* Math.PI / 2, rounded down
sensitivity == 700000           \* 0.0014 rad per pixel
minZoom == 1000000              \* 10
maxZoom == 40000000             \* 400
zoomStep == 35000               \* 0.35 per unit of deltaY
velocityDamping == 94           \* 0.94, in hundredths
zoomSmooth == 14                \* 0.14, in hundredths
velThreshold == 5               \* 1e-8 rad
pitchLimit == HalfPi - 500000   \* Math.PI / 2 - 0.001

\* momentum kept from a drag of d pixels: -d * sensitivity * 0.8
DragMomentum(d) == Scale(-d * sensitivity, 8, 10)

\* Damp with a damping factor of 0.97
DampWeak(v) ==
    LET w == Scale(v, 97, 100)
    IN  IF Abs(w) < velThreshold THEN 0 ELSE w

\* v * velocityDamping, then the snap to zero below 1e-8
Damp(v) ==
    LET w == Scale(v, velocityDamping, 100)
    IN  IF Abs(w) < velThreshold THEN 0 ELSE w

\* ClampPitch with the clamp left out
ClampPitchOff(p) == p

\* ClampPitch with the limit at pi/2 itself
ClampPitchLoose(p) == Max(-HalfPi, Min(HalfPi, p))

\* Math.max(-pitchLimit, Math.min(pitchLimit, p))
ClampPitch(p) == Max(-pitchLimit, Min(pitchLimit, p))

\* ClampZoom without the upper limit
ClampZoomNoMax(r) == Max(minZoom, r)

\* ClampZoom without the lower limit
ClampZoomNoMin(r) == Min(maxZoom, r)

\* Math.max(minZoom, Math.min(maxZoom, r))
ClampZoom(r) == Max(minZoom, Min(maxZoom, r))

\* ZoomStep with a factor of 0.014
ZoomStepSlow(r, t) == r + Scale(t - r, zoomSmooth, 1000)

\* ZoomStep with a factor of 1.14
ZoomStepOver(r, t) == r + Scale(t - r, 100 + zoomSmooth, 100)

\* radiusCam + (targetRadius - radiusCam) * zoomSmooth
ZoomStep(r, t) == r + Scale(t - r, zoomSmooth, 100)

(***************************************************************************)
(* Geometry generators: numbers                                            *)
(***************************************************************************)
FX == 10000                     \* 1.0 in mesh units
PiFx == 31416                   \* Math.PI
NaN == 999999999                \* the double NaN (result of 0 / 0)

IsNaN(x) == x = NaN

\* a / b truncated toward zero
TruncDiv(a, b) == Sgn(a) * Sgn(b) * (Abs(a) \div Abs(b))

\* unary minus; -NaN is NaN
FNeg(a) == IF IsNaN(a) THEN NaN ELSE -a

\* a * b of two doubles
FMul(a, b) == IF IsNaN(a) \/ IsNaN(b) THEN NaN ELSE TruncDiv(a * b, FX)

\* a * n for an integer n
FMulN(a, n) == IF IsNaN(a) THEN NaN ELSE a * n

\* a - b of two doubles
FSub(a, b) == IF IsNaN(a) \/ IsNaN(b) THEN NaN ELSE a - b

\* a / n for an integer count n; the generators divide by zero only as 0 / 0
FDivN(a, n) ==
    IF IsNaN(a) \/ n = 0 THEN NaN ELSE TruncDiv(a, n)

\* sine of x in [0, pi/2]: x - x^3/3! + x^5/5! - x^7/7! + x^9/9!
SinQ(x) ==
    LET x2 == (x * x) \div FX
        t3 == ((x * x2) \div FX) \div 6
        t5 == ((t3 * x2) \div FX) \div 20
        t7 == ((t5 * x2) \div FX) \div 42
        t9 == ((t7 * x2) \div FX) \div 72
    IN  Min(FX, x - t3 + t5 - t7 + t9)

\* Math.sin
MathSin(a) ==
    IF IsNaN(a) THEN NaN
    ELSE LET r == a % (2 * PiFx)
             h == PiFx \div 2
         IN  IF r <= h THEN SinQ(r)
             ELSE IF r <= PiFx THEN SinQ(PiFx - r)
             ELSE IF r <= PiFx + h THEN -SinQ(r - PiFx)
             ELSE -SinQ(2 * PiFx - r)

\* Math.cos
MathCos(a) == IF IsNaN(a) THEN NaN ELSE MathSin(a + PiFx \div 2)

\* new Float32Array(a): NaN stays NaN; the rounding to a 24-bit significand
\* is finer than a mesh unit for the magnitudes that occur
ToFloat32(x) == IF IsNaN(x) THEN NaN ELSE x
Float32Array(a) == [i \in DOMAIN a |-> ToFloat32(a[i])]

\* new Uint16Array(a): each element modulo 2^16
Uint16Array(a) == [i \in DOMAIN a |-> a[i] % 65536]

(***************************************************************************)
(* createSphere                                                            *)
(***************************************************************************)
\* the first pair of loops: positions, normals and UVs
RECURSIVE SphereVertexLoop(_, _, _, _, _, _, _)
SphereVertexLoop(latBands, longBands, radius, invert, lat, lon, acc) ==
    IF lat > latBands THEN acc
    ELSE IF lon > longBands
    THEN SphereVertexLoop(latBands, longBands, radius, invert, lat + 1, 0, acc)
    ELSE LET theta == FDivN(lat * PiFx, latBands)
             sinT == MathSin(theta)
             cosT == MathCos(theta)
             phi == FDivN(lon * 2 * PiFx, longBands)
             sinP == MathSin(phi)
             cosP == MathCos(phi)
             x == FMul(cosP, sinT)
             y == cosT
             z == FMul(sinP, sinT)
             nx == IF invert THEN FNeg(x) ELSE x
             ny == IF invert THEN FNeg(y) ELSE y
             nz == IF invert THEN FNeg(z) ELSE z
         IN  SphereVertexLoop(latBands, longBands, radius, invert, lat, lon + 1,
                 [pos |-> acc.pos \o <<FMul(radius, x), FMul(radius, y),
                                       FMul(radius, z)>>,
                  norm |-> acc.norm \o <<nx, ny, nz>>,
                  uv |-> acc.uv \o <<FDivN(lon * FX, longBands),
                                     FSub(FX, FDivN(lat * FX, latBands))>>])

\* SphereCell pushing only the first triangle
SphereCellOneTri(longBands, invert, lat, lon) ==
    LET first == lat * (longBands + 1) + lon
        second == first + longBands + 1
    IN  IF invert
        THEN <<first, first + 1, second>>
        ELSE <<first, second, first + 1>>

\* SphereCell with the same winding for both variants
SphereCellSameWinding(longBands, invert, lat, lon) ==
    LET first == lat * (longBands + 1) + lon
        second == first + longBands + 1
    IN  <<first, second, first + 1, second, second + 1, first + 1>>

\* the six indices pushed for the cell (lat, lon)
SphereCell(longBands, invert, lat, lon) ==
    LET first == lat * (longBands + 1) + lon
        second == first + longBands + 1
    IN  IF invert
        THEN <<first, first + 1, second, second, first + 1, second + 1>>
        ELSE <<first, second, first + 1, second, second + 1, first + 1>>

\* the six entries of createSphere's index array that hold the cell
\* (lat, lon), as the Uint16Array stores them
StoredSphereCell(longBands, invert, lat, lon) ==
    Uint16Array(SphereCell(longBands, invert, lat, lon))

\* the second pair of loops: indices
RECURSIVE SphereIndexLoop(_, _, _, _, _, _)
SphereIndexLoop(latBands, longBands, invert, lat, lon, idx) ==
    IF lat >= latBands THEN idx
    ELSE IF lon >= longBands
    THEN SphereIndexLoop(latBands, longBands, invert, lat + 1, 0, idx)
    ELSE SphereIndexLoop(latBands, longBands, invert, lat, lon + 1,
                         idx \o SphereCell(longBands, invert, lat, lon))

createSphere(latBands, longBands, radius, invert) ==
    LET v == SphereVertexLoop(latBands, longBands, radius, invert, 0, 0,
                              [pos |-> <<>>, norm |-> <<>>, uv |-> <<>>])
        idx == SphereIndexLoop(latBands, longBands, invert, 0, 0, <<>>)
    IN  [positions |-> Float32Array(v.pos),
         normals |-> Float32Array(v.norm),
         uvs |-> Float32Array(v.uv),
         indices |-> Uint16Array(idx)]

(***************************************************************************)
(* createRing                                                              *)
(***************************************************************************)
\* theta of iteration i: (i / segments) * 2 * Math.PI
RingTheta(segments, i) == FMul(FMulN(FDivN(i * FX, segments), 2), PiFx)

\* RingPair pushing the outer edge first
RingPairSwapped(innerR, outerR, segments, i) ==
    LET theta == RingTheta(segments, i)
        cosT == MathCos(theta)
        sinT == MathSin(theta)
    IN  [pos |-> <<FMul(outerR, cosT), 0, FMul(outerR, sinT),
                   FMul(innerR, cosT), 0, FMul(innerR, sinT)>>,
         uv |-> <<FX, FDivN(i * FX, segments), 0, FDivN(i * FX, segments)>>]

\* what one iteration pushes for the inner and the outer edge
RingPair(innerR, outerR, segments, i) ==
    LET theta == RingTheta(segments, i)
        cosT == MathCos(theta)
        sinT == MathSin(theta)
    IN  [pos |-> <<FMul(innerR, cosT), 0, FMul(innerR, sinT),
                   FMul(outerR, cosT), 0, FMul(outerR, sinT)>>,
         uv |-> <<0, FDivN(i * FX, segments), FX, FDivN(i * FX, segments)>>]

\* the two triangles pushed while i < segments
RingCell(i) ==
    LET base == i * 2
    IN  <<base, base + 1, base + 2, base + 1, base + 3, base + 2>>

\* the six entries of createRing's index array for segment i, as stored
StoredRingCell(i) == Uint16Array(RingCell(i))

\* no cell looked at yet
NoCell == [kind |-> "none", lat |-> 0, lon |-> 0, invert |-> FALSE,
           indices |-> <<>>]

RECURSIVE RingLoop(_, _, _, _, _)
RingLoop(innerR, outerR, segments, i, acc) ==
    IF i > segments THEN acc
    ELSE LET p == RingPair(innerR, outerR, segments, i)
         IN  RingLoop(innerR, outerR, segments, i + 1,
                 [pos |-> acc.pos \o p.pos,
                  uv |-> acc.uv \o p.uv,
                  idx |-> IF i < segments THEN acc.idx \o RingCell(i)
                          ELSE acc.idx])

createRing(innerR, outerR, segments) ==
    LET r == RingLoop(innerR, outerR, segments, 0,
                      [pos |-> <<>>, uv |-> <<>>, idx |-> <<>>])
    IN  [positions |-> Float32Array(r.pos),
         uvs |-> Float32Array(r.uv),
         indices |-> Uint16Array(r.idx)]

\* the value of sphere, skySphere and ring before their declaration runs
NoMesh == [positions |-> <<>>, uvs |-> <<>>, indices |-> <<>>]

(***************************************************************************)
(* Scene: the bodies and their orbital motion                              *)
(***************************************************************************)
Null == "null"                  \* the JavaScript null
distanceScale == 60000          \* 6.0
sizeScale == 2800               \* 0.28
sunRadius == 18000              \* 1.8
defaultOrbit == 50              \* 0.5, the time-scale at load

\* a * b / c as <<quotient, remainder>> for a, b >= 0 and c > 0, without
\* leaving 32 bits
RECURSIVE MulDivQR(_, _, _)
MulDivQR(a, b, c) ==
    IF b = 0 THEN <<0, 0>>
    ELSE LET h == MulDivQR(a, b \div 2, c)
             rest == 2 * h[2] + (b % 2) * a
         IN  <<2 * h[1] + rest \div c, rest % c>>

\* a * b / c truncated toward zero
MulDiv(a, b, c) == Sgn(a) * Sgn(b) * MulDivQR(Abs(a), Abs(b), c)[1]

\* largest r in lo .. hi - 1 with r * r <= n
RECURSIVE SqrtSearch(_, _, _)
SqrtSearch(n, lo, hi) ==
    IF hi - lo <= 1 THEN lo
    ELSE LET mid == (lo + hi) \div 2
         IN  IF mid * mid <= n THEN SqrtSearch(n, mid, hi)
             ELSE SqrtSearch(n, lo, mid)

\* Math.sqrt of a number in 1e-4 units
MathSqrt(x) == SqrtSearch(x * FX, 0, 46340)

\* v || d: the default takes the place of a missing or zero value
OrDefault(v, d) == IF v = 0 THEN d ELSE v

\* the entries of the planets array the model keeps (Earth with one moon,
\* Mars with two), as the data literal gives them
planetData ==
    << [name |-> "Earth", distAU |-> 10000, size |-> 10000, period |-> 36500,
        moons |-> << [name |-> "Moon", relDist |-> 40, size |-> 2700,
                      period |-> 2700] >>],
       [name |-> "Mars", distAU |-> 15200, size |-> 5300, period |-> 68700,
        moons |-> << [name |-> "Phobos", relDist |-> 15, size |-> 110,
                      period |-> 32],
                     [name |-> "Deimos", relDist |-> 30, size |-> 60,
                      period |-> 126] >>] >>

\* the load-time loop: m.visualDist and m.visualSize
InitMoon(m) ==
    [name |-> m.name, period |-> m.period,
     visualDist |-> Max(900, FMul(FMul(m.relDist, distanceScale), 35 * FX)),
     visualSize |-> Max(100, FMul(m.size, sizeScale))]

\* the load-time loop: p.distance and p.visualSize
InitPlanet(p) ==
    [name |-> p.name, distAU |-> p.distAU, period |-> p.period,
     distance |-> FMul(p.distAU, distanceScale),
     visualSize |-> Max(400, FMul(p.size, sizeScale)),
     moons |-> [i \in DOMAIN p.moons |-> InitMoon(p.moons[i])]]

planets == [i \in DOMAIN planetData |-> InitPlanet(planetData[i])]

PlanetNames == {planets[i].name : i \in DOMAIN planets}
MoonNames == UNION {{planets[i].moons[j].name : j \in DOMAIN planets[i].moons} :
                    i \in DOMAIN planets}

\* planets.find((pl) => pl.name === name)
FindPlanet(name) == planets[CHOOSE i \in DOMAIN planets : planets[i].name = name]

\* PlanetAngle with the planet's random phase added
PlanetAnglePhased(p, t, timeScale) ==
    MulDiv(MulDiv(t * timeScale, 5 * PiFx, OrDefault(p.period, 36500)),
           FX, 100 * MathSqrt(Max(1, p.distAU)))
    + phase[CHOOSE i \in DOMAIN planets : planets[i].name = p.name]

\* (t * orbitalSpeed * timeScale * 5.0) / Math.sqrt(Math.max(0.0001, p.distAU))
\* with orbitalSpeed = 10 pi / (p.period || 365):
\* t[ms] * timeScale[0.01] * 5 pi / period[0.01] is the angle in 1e-6 rad
\* before the division by the square root
PlanetAngle(p, t, timeScale) ==
    MulDiv(MulDiv(t * timeScale, 5 * PiFx, OrDefault(p.period, 36500)),
           FX, 100 * MathSqrt(Max(1, p.distAU)))

\* [px, 0, pz] as the lock branch recomputes it for the locked planet
PlanetPos(p, t, timeScale) ==
    LET angle == PlanetAngle(p, t, timeScale)
    IN  <<FMul(MathCos(angle), p.distance), 0, FMul(MathSin(angle), p.distance)>>

\* MoonAngle with the index as a phase offset of 0.12 rad per moon
MoonAngleOffset(m, i, t, timeScale) ==
    MulDiv(t * timeScale, PiFx, 50 * OrDefault(m.period, 2700)) + 1200 * i

\* t * moonSpeed * timeScale * (1.0 + 0.12 * i) with moonSpeed =
\* 2 pi / (m.period || 27); i counts from 0
MoonAngle(m, i, t, timeScale) ==
    MulDiv(MulDiv(t * timeScale, PiFx, 50 * OrDefault(m.period, 2700)),
           100 + 12 * i, 100)

\* [mx, 0, mz] around the parent at c = [px, 0, pz]
MoonPos(p, c, m, mangle) ==
    LET arm == m.visualDist + FMul(p.visualSize, 6000)
    IN  <<c[1] + FMul(MathCos(mangle), arm), 0,
          c[3] + FMul(MathSin(mangle), arm)>>

\* DrawPlanet with the angle accumulated from the frame before: the last
\* angle plus the advance over the time since then at the current time-scale
DrawPlanetIncremental(p, t, timeScale) ==
    LET last == IF drawn.bodies = <<>> THEN 0
                ELSE drawn.bodies[CHOOSE i \in DOMAIN planets :
                                      planets[i].name = p.name].angle
        angle == last + PlanetAngle(p, t - drawn.t, timeScale)
        pos == <<FMul(MathCos(angle), p.distance), 0,
                 FMul(MathSin(angle), p.distance)>>
    IN  [name |-> p.name,
         angle |-> angle,
         pos |-> pos,
         moons |-> [i \in DOMAIN p.moons |->
                       LET mangle == MoonAngle(p.moons[i], i - 1, t, timeScale)
                       IN  [name |-> p.moons[i].name,
                            mangle |-> mangle,
                            pos |-> MoonPos(p, pos, p.moons[i], mangle)]]]

\* what one pass of the planet loop computes for planet p
DrawPlanet(p, t, timeScale) ==
    LET angle == PlanetAngle(p, t, timeScale)
        pos == <<FMul(MathCos(angle), p.distance), 0,
                 FMul(MathSin(angle), p.distance)>>
    IN  [name |-> p.name,
         angle |-> angle,
         pos |-> pos,
         moons |-> [i \in DOMAIN p.moons |->
                       LET mangle == MoonAngle(p.moons[i], i - 1, t, timeScale)
                       IN  [name |-> p.moons[i].name,
                            mangle |-> mangle,
                            pos |-> MoonPos(p, pos, p.moons[i], mangle)]]]

\* what one frame computes: t, timeScale and the planet loop; paused is
\* the flag the frame read
DrawFrame(t, timeScale) ==
    [t |-> t, timeScale |-> timeScale, paused |-> paused,
     bodies |-> [i \in DOMAIN planets |-> DrawPlanet(planets[i], t, timeScale)]]

\* before the first frame nothing is computed
NoFrame == [t |-> 0, timeScale |-> 0, paused |-> FALSE, bodies |-> <<>>]

(***************************************************************************)
(* Scene: hover search and camera target.  The canvas size and the         *)
(* projection matrix are outside the model: what worldToCanvasPoint        *)
(* returns for a body's centre (scr) and for the point one radius beside   *)
(* it (scr2) is an input of the frame, a screen point or NoPoint.          *)
(***************************************************************************)
NoPoint == <<>>                 \* worldToCanvasPoint returning null
Infinity == 2147483647
dpr == 1                        \* window.devicePixelRatio || 1
lerpT == 12                     \* 0.12, in hundredths

\* the square of the pick radius: 12 px when scr2 is missing, else
\* Math.max(6, Math.hypot(dx, dy))
RadiusPxSq(scr, scr2) ==
    IF scr2 = NoPoint THEN 144
    ELSE Max(36, (scr2[1] - scr[1]) * (scr2[1] - scr[1])
                 + (scr2[2] - scr[2]) * (scr2[2] - scr[2]))

\* squared distance of a screen point from the pointer
PointerDistSq(scr, px, py) ==
    (scr[1] - px * dpr) * (scr[1] - px * dpr)
    + (scr[2] - py * dpr) * (scr[2] - py * dpr)

\* HoverSun that forgets the sun's distance
HoverSunNoBest(proj, px, py) ==
    LET c == proj["Sun"]
    IN  IF c.scr # NoPoint
           /\ PointerDistSq(c.scr, px, py) < RadiusPxSq(c.scr, c.scr2)
        THEN [best |-> Infinity, hovered |-> "Sun"]
        ELSE [best |-> Infinity, hovered |-> Null]

\* the sun check that precedes the planet loop
HoverSun(proj, px, py) ==
    LET c == proj["Sun"]
    IN  IF c.scr # NoPoint
           /\ PointerDistSq(c.scr, px, py) < RadiusPxSq(c.scr, c.scr2)
        THEN [best |-> PointerDistSq(c.scr, px, py), hovered |-> "Sun"]
        ELSE [best |-> Infinity, hovered |-> Null]

\* the hover part of the planet loop, from planet i on
RECURSIVE HoverLoop(_, _, _, _, _)
HoverLoop(proj, px, py, i, acc) ==
    IF i > Len(planets) THEN acc
    ELSE LET c == proj[planets[i].name]
             hit == /\ c.scr # NoPoint
                    /\ PointerDistSq(c.scr, px, py) < RadiusPxSq(c.scr, c.scr2)
                    /\ PointerDistSq(c.scr, px, py) < acc.best
         IN  HoverLoop(proj, px, py, i + 1,
                       IF hit
                       THEN [best |-> PointerDistSq(c.scr, px, py),
                             hovered |-> planets[i].name]
                       ELSE acc)

\* hoveredPlanet at the end of a frame
HoverSearch(proj, px, py) == HoverLoop(proj, px, py, 1, HoverSun(proj, px, py)).hovered

\* a body worldToCanvasPoint returns nothing for
Hidden == [scr |-> NoPoint, scr2 |-> NoPoint]

\* no body projects onto the canvas
Offscreen == [n \in {"Sun"} \cup PlanetNames |-> Hidden]

\* the projections the frames are tried with: the sun at the canvas origin
\* with Earth and Mars 3 px apart, and Mars alone where Earth was
Projections ==
    { Offscreen,
      [Offscreen EXCEPT !["Sun"] = [scr |-> <<0, 0>>, scr2 |-> <<10, 0>>],
                        !["Earth"] = [scr |-> <<300, 1200>>, scr2 |-> <<304, 1200>>],
                        !["Mars"] = [scr |-> <<300, 1203>>, scr2 |-> NoPoint]],
      [Offscreen EXCEPT !["Mars"] = [scr |-> <<300, 1200>>, scr2 |-> <<320, 1200>>]] }

\* Math.round(a / b) for b > 0: the nearest integer, halves upwards
RoundDiv(a, b) == (2 * a + b) \div (2 * b)

\* the tooltip element as the page declares it: not displayed, empty
NoTooltip == [display |-> "none", left |-> 0, top |-> 0, text |-> ""]

\* showTooltip(text, canvasX, canvasY) with scr = <<canvasX, canvasY>>
showTooltip(text, scr) ==
    [display |-> "block",
     left |-> RoundDiv(scr[1] + 8 * dpr, dpr),
     top |-> RoundDiv(scr[2] + 8 * dpr, dpr),
     text |-> text]

\* hideTooltip(): only the display style changes
hideTooltip(el) == [el EXCEPT !.display = "none"]

\* requestAnimationFrame(render) that queues the callback twice
requestAnimationFrameTwice(pending) == pending + 2

\* requestAnimationFrame(render): one more callback is queued
requestAnimationFrame(pending) == pending + 1

(***************************************************************************)
(* Textures.  A handle's content is the 1x1 white placeholder or the image *)
(* of its url; the Image behind it is loading, loaded or failed.           *)
(***************************************************************************)
defaultSunEmissive == 200
TextureUrls == {"textures/space.png", "textures/earth.jpg"}
\* what a handle holds: the 1x1 white pixel or the picture of a url
Placeholder == [image |-> "1x1 white"]
ImageOf(url) == [image |-> url]

\* loadTexture(url) up to its return: the handle holds the placeholder and
\* the image request is under way
loadTexture(url) == [texture |-> Placeholder, img |-> "loading"]

\* the point the camera target is drawn to
DesiredTarget(locked, t, timeScale) ==
    IF locked = Null \/ locked = "Sun" THEN <<0, 0, 0>>
    ELSE PlanetPos(FindPlanet(locked), t, timeScale)

\* Lerp that jumps to b
LerpSnap(a, b) == b

\* vec3.lerp(out, a, b, t): a + t * (b - a) in every component
Lerp(a, b) == [k \in 1..3 |-> a[k] + Scale(b[k] - a[k], lerpT, 100)]

(***************************************************************************)
(* Initial state: the module-level declarations                            *)
(***************************************************************************)
CamInit ==
    /\ yaw = 0 /\ pitch = 0
    /\ yawVel = 0 /\ pitchVel = 0
    /\ radiusCam = 12000000 /\ targetRadius = 12000000
    /\ dragging = FALSE /\ lastX = 0 /\ lastY = 0

\* the camera specifications leave the meshes out: they are immutable after
\* load and the camera code does not read them
GeomIdle ==
    /\ geomIn = [latBands |-> 0, longBands |-> 0, radius |-> 0,
                 innerR |-> 0, outerR |-> 0, segments |-> 0]
    /\ sphere = NoMesh /\ skySphere = NoMesh /\ ring = NoMesh
    /\ geomPc = 0
    /\ idxCell = NoCell

\* the scene declarations but for the pointer; ph is what Math.random()
\* gave every planet
SceneRest(ph) ==
    /\ hoveredPlanet = Null /\ lockedPlanet = Null
    /\ cameraTarget = <<0, 0, 0>>
    /\ simTime = 0 /\ lastRealTime = 0 /\ clock = 0
    /\ paused = FALSE
    /\ orbitSlowdown = defaultOrbit /\ pendingOrbit = defaultOrbit
    /\ phase = ph
    /\ drawn = NoFrame
    /\ viewPitch = 0
    /\ lastSync = 0
    /\ sunEmissive = defaultSunEmissive
    /\ orbitLabel = defaultOrbit
    /\ tooltip = NoTooltip
    /\ rafPending = 1      \* the initial requestAnimationFrame(render)
    /\ texture = [u \in TextureUrls |-> loadTexture(u).texture]
    /\ imgState = [u \in TextureUrls |-> loadTexture(u).img]

SceneInit(ph) ==
    /\ pointerX = 0 /\ pointerY = 0
    /\ SceneRest(ph)

NoPhase == [i \in DOMAIN planets |-> 0]

Init ==
    /\ CamInit
    /\ frames = 0
    /\ GeomIdle
    /\ SceneInit(NoPhase)

(***************************************************************************)
(* Pointer event handlers                                                  *)
(***************************************************************************)
MouseDown(x, y) ==
    /\ dragging' = TRUE
    /\ lastX' = x
    /\ lastY' = y
    /\ yawVel' = 0
    /\ pitchVel' = 0
    /\ UNCHANGED <<yaw, pitch, radiusCam, targetRadius, frames>>
    /\ UNCHANGED geomVars
    /\ UNCHANGED sceneVars

\* MouseUp that also stops the camera
MouseUpClearsMomentum ==
    /\ dragging' = FALSE
    /\ yawVel' = 0
    /\ pitchVel' = 0
    /\ UNCHANGED <<yaw, pitch, radiusCam, targetRadius, lastX, lastY, frames>>
    /\ UNCHANGED geomVars
    /\ UNCHANGED sceneVars

MouseUp ==
    /\ dragging' = FALSE
    /\ UNCHANGED <<yaw, pitch, yawVel, pitchVel, radiusCam, targetRadius,
                   lastX, lastY, frames>>
    /\ UNCHANGED geomVars
    /\ UNCHANGED sceneVars

MouseLeave ==
    /\ dragging' = FALSE
    /\ UNCHANGED <<yaw, pitch, yawVel, pitchVel, radiusCam, targetRadius,
                   lastX, lastY, frames>>
    /\ UNCHANGED geomVars
    /\ UNCHANGED sceneVars

\* MouseMove that does not remember where the pointer was
MouseMoveKeepsLast(x, y) ==
    /\ pointerX' = x
    /\ pointerY' = y
    /\ IF ~dragging
       THEN UNCHANGED camVars
       ELSE LET dx == x - lastX
                dy == y - lastY
            IN  /\ yaw' = yaw - dx * sensitivity
                /\ pitch' = pitch + dy * sensitivity
                /\ yawVel' = DragMomentum(dx)
                /\ pitchVel' = DragMomentum(dy)
                /\ UNCHANGED <<radiusCam, targetRadius, dragging, lastX,
                               lastY>>
    /\ UNCHANGED <<frames, lockedPlanet>>
    /\ UNCHANGED geomVars
    /\ UNCHANGED timeVars
    /\ UNCHANGED frameVars
    /\ UNCHANGED assetVars

\* both mousemove listeners: the pointer bookkeeping, then the drag
MouseMove(x, y) ==
    /\ pointerX' = x
    /\ pointerY' = y
    /\ IF ~dragging
       THEN UNCHANGED camVars
       ELSE LET dx == x - lastX
                dy == y - lastY
            IN  /\ lastX' = x
                /\ lastY' = y
                /\ yaw' = yaw - dx * sensitivity
                /\ pitch' = pitch + dy * sensitivity
                /\ yawVel' = DragMomentum(dx)
                /\ pitchVel' = DragMomentum(dy)
                /\ UNCHANGED <<radiusCam, targetRadius, dragging>>
    /\ UNCHANGED <<frames, lockedPlanet>>
    /\ UNCHANGED geomVars
    /\ UNCHANGED timeVars
    /\ UNCHANGED frameVars
    /\ UNCHANGED assetVars

\* Wheel that also moves the camera to the requested distance at once
WheelSnaps(deltaY) ==
    /\ targetRadius' = ClampZoom(targetRadius + deltaY * zoomStep)
    /\ radiusCam' = targetRadius'
    /\ UNCHANGED <<yaw, pitch, yawVel, pitchVel,
                   dragging, lastX, lastY, frames>>
    /\ UNCHANGED geomVars
    /\ UNCHANGED sceneVars

Wheel(deltaY) ==
    /\ targetRadius' = ClampZoom(targetRadius + deltaY * zoomStep)
    /\ UNCHANGED <<yaw, pitch, yawVel, pitchVel, radiusCam,
                   dragging, lastX, lastY, frames>>
    /\ UNCHANGED geomVars
    /\ UNCHANGED sceneVars

\* Click that releases any lock before it takes a new one
ClickReleasesFirst ==
    /\ IF hoveredPlanet # Null
       THEN IF lockedPlanet # Null
            THEN lockedPlanet' = Null
            ELSE lockedPlanet' = hoveredPlanet
       ELSE UNCHANGED lockedPlanet
    /\ UNCHANGED <<frames, pointerX, pointerY>>
    /\ UNCHANGED camVars
    /\ UNCHANGED geomVars
    /\ UNCHANGED timeVars
    /\ UNCHANGED frameVars
    /\ UNCHANGED assetVars

\* click on the canvas: toggle the lock on the hovered body
Click ==
    /\ IF hoveredPlanet # Null
       THEN IF lockedPlanet # Null /\ lockedPlanet = hoveredPlanet
            THEN lockedPlanet' = Null
            ELSE lockedPlanet' = hoveredPlanet
       ELSE UNCHANGED lockedPlanet
    /\ UNCHANGED <<frames, pointerX, pointerY>>
    /\ UNCHANGED camVars
    /\ UNCHANGED geomVars
    /\ UNCHANGED timeVars
    /\ UNCHANGED frameVars
    /\ UNCHANGED assetVars

(***************************************************************************)
(* Time controls                                                           *)
(***************************************************************************)
\* SliderInput that applies the value to the simulation at once
SliderInputApplies(v) ==
    /\ pendingOrbit' = v
    /\ orbitLabel' = v
    /\ orbitSlowdown' = v
    /\ UNCHANGED <<simTime, lastRealTime, clock, paused, phase, lastSync,
                   sunEmissive>>
    /\ UNCHANGED <<frames, pointerX, pointerY, lockedPlanet>>
    /\ UNCHANGED camVars
    /\ UNCHANGED geomVars
    /\ UNCHANGED frameVars
    /\ UNCHANGED assetVars

\* the time-dilation slider moves: only the pending value follows
SliderInput(v) ==
    /\ pendingOrbit' = v
    /\ orbitLabel' = v
    /\ UNCHANGED <<simTime, lastRealTime, clock, paused, orbitSlowdown, phase,
                   lastSync, sunEmissive>>
    /\ UNCHANGED <<frames, pointerX, pointerY, lockedPlanet>>
    /\ UNCHANGED camVars
    /\ UNCHANGED geomVars
    /\ UNCHANGED frameVars
    /\ UNCHANGED assetVars

\* the slider is released: the value is applied
SliderChange(v) ==
    /\ orbitSlowdown' = v
    /\ pendingOrbit' = v
    /\ orbitLabel' = v
    /\ UNCHANGED <<simTime, lastRealTime, clock, paused, phase, lastSync,
                   sunEmissive>>
    /\ UNCHANGED <<frames, pointerX, pointerY, lockedPlanet>>
    /\ UNCHANGED camVars
    /\ UNCHANGED geomVars
    /\ UNCHANGED frameVars
    /\ UNCHANGED assetVars

\* PauseClick that leaves lastRealTime alone
PauseClickNoReset ==
    /\ paused' = ~paused
    /\ lastSync' = clock
    /\ UNCHANGED <<simTime, lastRealTime, clock, orbitSlowdown, pendingOrbit,
                   phase, sunEmissive, orbitLabel>>
    /\ UNCHANGED <<frames, pointerX, pointerY, lockedPlanet>>
    /\ UNCHANGED camVars
    /\ UNCHANGED geomVars
    /\ UNCHANGED frameVars
    /\ UNCHANGED assetVars

\* the Pause / Resume button
PauseClick ==
    /\ paused' = ~paused
    /\ lastRealTime' = clock
    /\ lastSync' = clock
    /\ UNCHANGED <<simTime, clock, orbitSlowdown, pendingOrbit, phase,
                   sunEmissive, orbitLabel>>
    /\ UNCHANGED <<frames, pointerX, pointerY, lockedPlanet>>
    /\ UNCHANGED camVars
    /\ UNCHANGED geomVars
    /\ UNCHANGED frameVars
    /\ UNCHANGED assetVars

\* real time passes: performance.now() grows by d ms
Tick(d) ==
    /\ clock' = clock + d
    /\ UNCHANGED <<simTime, lastRealTime, paused, orbitSlowdown, pendingOrbit,
                   phase, lastSync, sunEmissive, orbitLabel>>
    /\ UNCHANGED <<frames, pointerX, pointerY, lockedPlanet>>
    /\ UNCHANGED camVars
    /\ UNCHANGED geomVars
    /\ UNCHANGED frameVars
    /\ UNCHANGED assetVars

\* the sun-brightness slider moves: the value applies at once
SunSliderInput(v) ==
    /\ sunEmissive' = v
    /\ UNCHANGED <<simTime, lastRealTime, clock, paused, orbitSlowdown,
                   pendingOrbit, phase, lastSync, orbitLabel>>
    /\ UNCHANGED <<frames, pointerX, pointerY, lockedPlanet>>
    /\ UNCHANGED camVars
    /\ UNCHANGED geomVars
    /\ UNCHANGED frameVars
    /\ UNCHANGED assetVars

\* the Reset button: time dilation and sun brightness return to the defaults
ResetClick ==
    /\ orbitSlowdown' = defaultOrbit
    /\ pendingOrbit' = defaultOrbit
    /\ orbitLabel' = defaultOrbit
    /\ sunEmissive' = defaultSunEmissive
    /\ UNCHANGED <<simTime, lastRealTime, clock, paused, phase, lastSync>>
    /\ UNCHANGED <<frames, pointerX, pointerY, lockedPlanet>>
    /\ UNCHANGED camVars
    /\ UNCHANGED geomVars
    /\ UNCHANGED frameVars
    /\ UNCHANGED assetVars

(***************************************************************************)
(* Image callbacks of loadTexture.  The browser fires at most one of load  *)
(* and error for an Image whose src is set once.                           *)
(***************************************************************************)
\* img.onload: the image replaces the content of the handle
ImgOnload(url) ==
    /\ imgState[url] = "loading"
    /\ imgState' = [imgState EXCEPT ![url] = "loaded"]
    /\ texture' = [texture EXCEPT ![url] = ImageOf(url)]
    /\ UNCHANGED <<frames, pointerX, pointerY, lockedPlanet>>
    /\ UNCHANGED camVars
    /\ UNCHANGED geomVars
    /\ UNCHANGED timeVars
    /\ UNCHANGED frameVars

\* ImgOnerror that empties the handle
ImgOnerrorBlanks(url) ==
    /\ imgState[url] = "loading"
    /\ imgState' = [imgState EXCEPT ![url] = "failed"]
    /\ texture' = [texture EXCEPT ![url] = [image |-> "none"]]
    /\ UNCHANGED <<frames, pointerX, pointerY, lockedPlanet>>
    /\ UNCHANGED camVars
    /\ UNCHANGED geomVars
    /\ UNCHANGED timeVars
    /\ UNCHANGED frameVars

\* img.onerror: a warning is logged, the handle is not touched
ImgOnerror(url) ==
    /\ imgState[url] = "loading"
    /\ imgState' = [imgState EXCEPT ![url] = "failed"]
    /\ UNCHANGED texture
    /\ UNCHANGED <<frames, pointerX, pointerY, lockedPlanet>>
    /\ UNCHANGED camVars
    /\ UNCHANGED geomVars
    /\ UNCHANGED timeVars
    /\ UNCHANGED frameVars

(***************************************************************************)
(* render(): one frame.  proj is what worldToCanvasPoint returns for the    *)
(* bodies in this frame.                                                   *)
(***************************************************************************)
Render(proj) ==
    /\ rafPending > 0
    /\ radiusCam' = ZoomStep(radiusCam, targetRadius)
    /\ IF ~dragging
       THEN /\ yaw' = yaw + yawVel
            /\ pitch' = ClampPitch(pitch + pitchVel)
            /\ yawVel' = Damp(yawVel)
            /\ pitchVel' = Damp(pitchVel)
       ELSE /\ yaw' = yaw + Scale(yawVel, 2, 10)
            /\ pitch' = ClampPitch(pitch + Scale(pitchVel, 2, 10))
            /\ UNCHANGED <<yawVel, pitchVel>>
    /\ viewPitch' = pitch'
    /\ LET t == IF ~paused THEN simTime + (clock - lastRealTime) ELSE simTime
           timeScale == orbitSlowdown
       IN  /\ simTime' = t
           /\ lastRealTime' = clock
           /\ lastSync' = clock
           /\ hoveredPlanet' = HoverSearch(proj, pointerX, pointerY)
           /\ drawn' = DrawFrame(t, timeScale)
           /\ cameraTarget' = Lerp(cameraTarget,
                                   DesiredTarget(lockedPlanet, t, timeScale))
    /\ IF hoveredPlanet' # Null
       THEN tooltip' = showTooltip(hoveredPlanet', proj[hoveredPlanet'].scr)
       ELSE tooltip' = hideTooltip(tooltip)
    /\ rafPending' = requestAnimationFrame(rafPending - 1)
    /\ frames' = frames + 1
    /\ UNCHANGED <<targetRadius, dragging, lastX, lastY>>
    /\ UNCHANGED <<pointerX, pointerY, lockedPlanet, clock, paused,
                   orbitSlowdown, pendingOrbit, phase, sunEmissive,
                   orbitLabel>>
    /\ UNCHANGED geomVars
    /\ UNCHANGED assetVars

(***************************************************************************)
(* Spec: frames interleaved with pointer events                            *)
(***************************************************************************)
\* a pointer-move the model delivers: the angles stay representable
MoveInRange(x, y) ==
    /\ Abs(yaw - (x - lastX) * sensitivity) <= AngleCap
    /\ Abs(pitch + (y - lastY) * sensitivity) <= AngleCap

DoMouseDown == \E p \in ClientPts : MouseDown(p[1], p[2])
DoMouseMove == \E p \in ClientPts :
                   MoveInRange(p[1], p[2]) /\ MouseMove(p[1], p[2])
DoWheel == \E d \in WheelDeltas : Wheel(d)
DoRender == frames < MaxFrames /\ Render(Offscreen)

Next ==
    \/ DoMouseDown
    \/ MouseUp
    \/ MouseLeave
    \/ DoMouseMove
    \/ DoWheel
    \/ DoRender

Spec == Init /\ [][Next]_vars

(***************************************************************************)
(* SpecDecay: a drag gesture has just been released (mousedown at the      *)
(* origin, one pointer-move by (dx, dy), mouseup); only frames follow.     *)
(***************************************************************************)
DecayInit ==
    \E dx \in DecayDeltas, dy \in DecayDeltas :
        /\ dx # 0 \/ dy # 0
        /\ yaw = -dx * sensitivity
        /\ pitch = dy * sensitivity
        /\ yawVel = DragMomentum(dx)
        /\ pitchVel = DragMomentum(dy)
        /\ radiusCam = 12000000 /\ targetRadius = 12000000
        /\ dragging = FALSE /\ lastX = dx /\ lastY = dy
        /\ frames = 0
        /\ GeomIdle
        /\ pointerX = dx /\ pointerY = dy
        /\ SceneRest(NoPhase)

DecayRender == frames < DecaySpan /\ Render(Offscreen)

DecayNext == DecayRender

SpecDecay == DecayInit /\ [][DecayNext]_vars

(***************************************************************************)
(* SpecHold: a drag gesture has moved the pointer (mousedown at the        *)
(* origin, one pointer-move by (dx, dy)) and the button is still held or   *)
(* has been released; only frames follow.                                  *)
(***************************************************************************)
HoldInit ==
    \E dx \in HoldDeltas, dy \in HoldDeltas, held \in BOOLEAN :
        /\ dx # 0 \/ dy # 0
        /\ yaw = -dx * sensitivity
        /\ pitch = dy * sensitivity
        /\ yawVel = DragMomentum(dx)
        /\ pitchVel = DragMomentum(dy)
        /\ radiusCam = 12000000 /\ targetRadius = 12000000
        /\ dragging = held /\ lastX = dx /\ lastY = dy
        /\ frames = 0
        /\ GeomIdle
        /\ pointerX = dx /\ pointerY = dy
        /\ SceneRest(NoPhase)

HoldRender == frames < DecaySpan /\ Render(Offscreen)

HoldNext == HoldRender

SpecHold == HoldInit /\ [][HoldNext]_vars

(***************************************************************************)
(* SpecZoom: wheel events during the first WheelWindow frames, then only   *)
(* frames.                                                                 *)
(***************************************************************************)
ZoomWheel == frames < WheelWindow /\ DoWheel
ZoomRender == frames < ZoomSpan /\ Render(Offscreen)

ZoomNext == ZoomWheel \/ ZoomRender

SpecZoom == Init /\ [][ZoomNext]_vars

(***************************************************************************)
(* SpecScene: frames interleaved with the passing of real time, the        *)
(* time-scale being applied, pause and resume, pointer moves without a     *)
(* drag and clicks.                                                        *)
(***************************************************************************)
SceneLoad ==
    /\ CamInit
    /\ frames = 0
    /\ GeomIdle
    /\ \E ph \in PhaseChoices : SceneInit(ph)

SceneTick == \E d \in TickSteps : clock + d <= MaxClock /\ Tick(d)
SceneSliderInput == \E v \in OrbitValues : SliderInput(v)
SceneSliderChange == \E v \in OrbitValues : SliderChange(v)
ScenePointer == \E p \in ClientPts : MouseMove(p[1], p[2])
SceneRender == frames < SceneFrames /\ \E proj \in Projections : Render(proj)

SceneNext ==
    \/ SceneTick
    \/ SceneSliderChange
    \/ PauseClick
    \/ ScenePointer
    \/ Click
    \/ SceneRender

SpecScene == SceneLoad /\ [][SceneNext]_vars

(***************************************************************************)
(* SpecPause: the time controls alone, with nothing on the canvas.         *)
(***************************************************************************)
PauseRender == frames < PauseFrames /\ Render(Offscreen)

PauseSunSlider == \E v \in SunValues : SunSliderInput(v)

PauseNext ==
    \/ SceneTick
    \/ SceneSliderInput
    \/ SceneSliderChange
    \/ PauseSunSlider
    \/ PauseClick
    \/ ResetClick
    \/ PauseRender

SpecPause == SceneLoad /\ [][PauseNext]_vars

(***************************************************************************)
(* SpecFollow: pointer moves, clicks and the passing of real time during   *)
(* the first ClickWindow frames, then only frames with nothing hovered.    *)
(***************************************************************************)
FollowTick == frames < ClickWindow /\ SceneTick
FollowPointer == frames < ClickWindow /\ ScenePointer
FollowClick == frames < ClickWindow /\ Click
FollowRender ==
    /\ frames < FollowSpan
    /\ \E proj \in (IF frames < ClickWindow THEN Projections ELSE {Offscreen}) :
           Render(proj)

FollowNext ==
    \/ FollowTick
    \/ FollowPointer
    \/ FollowClick
    \/ FollowRender

SpecFollow == SceneLoad /\ [][FollowNext]_vars

(***************************************************************************)
(* SpecLoop: the frame loop among every event handler and the image        *)
(* callbacks of the texture loads.                                         *)
(***************************************************************************)
LoopInit ==
    /\ CamInit
    /\ frames = 0
    /\ GeomIdle
    /\ SceneInit(NoPhase)

LoopMouseDown == MouseDown(LoopPt[1], LoopPt[2])
LoopMouseMove == MouseMove(LoopPt[1], LoopPt[2])
LoopWheel == frames = 0 /\ DoWheel
LoopImgOnload == \E url \in TextureUrls : ImgOnload(url)
LoopImgOnerror == \E url \in TextureUrls : ImgOnerror(url)
LoopRender == frames < LoopFrames /\ Render(Offscreen)

LoopNext ==
    \/ LoopMouseDown
    \/ MouseUp
    \/ MouseLeave
    \/ LoopMouseMove
    \/ LoopWheel
    \/ PauseClick
    \/ ResetClick
    \/ SceneSliderChange
    \/ PauseSunSlider
    \/ LoopImgOnload
    \/ LoopImgOnerror
    \/ LoopRender

SpecLoop == LoopInit /\ [][LoopNext]_vars

(***************************************************************************)
(* SpecHover: frames with bodies near the pointer, pointer moves, clicks.  *)
(***************************************************************************)
\* body n drawn at scr with a pick radius of r px to the right
At(proj, n, scr, r) ==
    [proj EXCEPT ![n] = [scr |-> scr, scr2 |-> <<scr[1] + r, scr[2]>>]]

\* the projections of SpecHover, around the client point <<300, 1200>>:
\* two planets equally far, sun and planet equally far, the later planet
\* nearer, the nearer planet outside its own radius, a planet exactly on
\* its fallback radius of 12 px, and nothing on the canvas
HoverProjections ==
    { Offscreen,
      At(At(Offscreen, "Earth", <<297, 1200>>, 12), "Mars", <<303, 1200>>, 12),
      At(At(Offscreen, "Sun", <<300, 1197>>, 20), "Earth", <<300, 1203>>, 12),
      At(At(Offscreen, "Earth", <<300, 1203>>, 12), "Mars", <<300, 1200>>, 12),
      At(At(Offscreen, "Earth", <<300, 1207>>, 3), "Mars", <<310, 1200>>, 12),
      [Offscreen EXCEPT !["Mars"] = [scr |-> <<312, 1200>>, scr2 |-> NoPoint]] }

HoverRender ==
    frames < HoverFrames /\ \E proj \in HoverProjections : Render(proj)

HoverNext ==
    \/ ScenePointer
    \/ Click
    \/ HoverRender

SpecHover == LoopInit /\ [][HoverNext]_vars

(***************************************************************************)
(* SpecIndex: single cells of the index arrays of large meshes.  The cell  *)
(* (lat, lon) of a sphere and the segment i of a ring are stored the same  *)
(* way whatever the rest of the array holds, so the first and last cells   *)
(* of meshes too large to build here are looked at one by one.             *)
(***************************************************************************)
IndexInit ==
    /\ CamInit
    /\ frames = 0
    /\ \E lb \in IndexBands, gb \in IndexBands, sg \in IndexSegments :
          geomIn = [latBands |-> lb, longBands |-> gb, radius |-> FX,
                    innerR |-> 13000, outerR |-> 25000, segments |-> sg]
    /\ sphere = NoMesh /\ skySphere = NoMesh /\ ring = NoMesh
    /\ geomPc = 0
    /\ idxCell = NoCell
    /\ SceneInit(NoPhase)

StoreSphereCell ==
    /\ \E lat \in {0, geomIn.latBands - 1}, lon \in {0, geomIn.longBands - 1},
          invert \in BOOLEAN :
          idxCell' = [kind |-> "sphere", lat |-> lat, lon |-> lon,
                      invert |-> invert,
                      indices |-> StoredSphereCell(geomIn.longBands, invert,
                                                   lat, lon)]
    /\ UNCHANGED <<geomIn, sphere, skySphere, ring, geomPc, frames>>
    /\ UNCHANGED camVars
    /\ UNCHANGED sceneVars

StoreRingCell ==
    /\ \E i \in {0, geomIn.segments - 1} :
          idxCell' = [kind |-> "ring", lat |-> 0, lon |-> i, invert |-> FALSE,
                      indices |-> StoredRingCell(i)]
    /\ UNCHANGED <<geomIn, sphere, skySphere, ring, geomPc, frames>>
    /\ UNCHANGED camVars
    /\ UNCHANGED sceneVars

IndexNext == StoreSphereCell \/ StoreRingCell

SpecIndex == IndexInit /\ [][IndexNext]_vars

(***************************************************************************)
(* SpecDrag: one drag.  The button went down at the client origin right    *)
(* after load; pointer moves and frames follow in any order.               *)
(***************************************************************************)
DragInit ==
    /\ yaw = 0 /\ pitch = 0
    /\ yawVel = 0 /\ pitchVel = 0
    /\ radiusCam = 12000000 /\ targetRadius = 12000000
    /\ dragging = TRUE /\ lastX = 0 /\ lastY = 0
    /\ frames = 0
    /\ GeomIdle
    /\ SceneInit(NoPhase)

DragMove == \E p \in DragPts : MouseMove(p[1], p[2])
DragRender == frames < DragFrames /\ Render(Offscreen)

DragNext == DragMove \/ DragRender

SpecDrag == DragInit /\ [][DragNext]_vars

(***************************************************************************)
(* SpecGeom: the three module-level generator calls                        *)
(*   const sphere = createSphere(36, 36, 1.0);                             *)
(*   const skySphere = createSphere(36, 36, 1.0, true);                    *)
(*   const ring = createRing(1.3, 2.5, 128);                               *)
(* with the arguments drawn from the bounded sets.                         *)
(***************************************************************************)
GeomInit ==
    /\ CamInit
    /\ frames = 0
    /\ \E lb \in BandCounts, gb \in BandCounts,
          r \in SphereRadii, rr \in RingRadii, sg \in BandCounts :
          geomIn = [latBands |-> lb, longBands |-> gb, radius |-> r,
                    innerR |-> rr[1], outerR |-> rr[2], segments |-> sg]
    /\ sphere = NoMesh /\ skySphere = NoMesh /\ ring = NoMesh
    /\ geomPc = 0
    /\ idxCell = NoCell
    /\ SceneInit(NoPhase)

BuildSphere ==
    /\ geomPc = 0
    /\ sphere' = createSphere(geomIn.latBands, geomIn.longBands,
                              geomIn.radius, FALSE)
    /\ geomPc' = 1
    /\ UNCHANGED <<geomIn, skySphere, ring, frames, idxCell>>
    /\ UNCHANGED camVars
    /\ UNCHANGED sceneVars

BuildSkySphere ==
    /\ geomPc = 1
    /\ skySphere' = createSphere(geomIn.latBands, geomIn.longBands,
                                 geomIn.radius, TRUE)
    /\ geomPc' = 2
    /\ UNCHANGED <<geomIn, sphere, ring, frames, idxCell>>
    /\ UNCHANGED camVars
    /\ UNCHANGED sceneVars

BuildRing ==
    /\ geomPc = 2
    /\ ring' = createRing(geomIn.innerR, geomIn.outerR, geomIn.segments)
    /\ geomPc' = 3
    /\ UNCHANGED <<geomIn, sphere, skySphere, frames, idxCell>>
    /\ UNCHANGED camVars
    /\ UNCHANGED sceneVars

GeomNext == BuildSphere \/ BuildSkySphere \/ BuildRing

SpecGeom == GeomInit /\ [][GeomNext]_vars

(***************************************************************************)
(* Camera properties                                                       *)
(***************************************************************************)
PitchInLimit(p) == -pitchLimit <= p /\ p <= pitchLimit
IsRenderStep == frames' = frames + 1
IsDragMove == dragging /\ dragging' /\ pitch' - pitch = (lastY' - lastY) * sensitivity

\* C1 (as claimed): in every reachable state the pitch is strictly between
\* -pi/2 and +pi/2.
C1_PitchAlwaysInsideHalfPi == -HalfPi < pitch /\ pitch < HalfPi

\* C1 (amended): every render frame leaves the pitch within
\* [-(pi/2 - 0.001), pi/2 - 0.001], hence strictly inside (-pi/2, pi/2), and
\* only a pointer-move of an active drag takes it out of that interval.
C1_PitchClampedByFrame ==
    [][ /\ IsRenderStep => PitchInLimit(pitch') /\ -HalfPi < pitch' /\ pitch' < HalfPi
        /\ (PitchInLimit(pitch) /\ ~PitchInLimit(pitch')) => IsDragMove ]_vars

\* the clamp has acted: a frame brought the pitch back to the limit
C1_Witness == frames > 0 /\ pitch = pitchLimit

\* C2: with dragging false and no input, |yawVel| and |pitchVel| never grow
\* from one frame to the next and both are exactly 0 after DecayBound frames.
C2_MomentumDiesOut ==
    /\ [][Abs(yawVel') <= Abs(yawVel) /\ Abs(pitchVel') <= Abs(pitchVel)]_vars
    /\ [](frames >= DecayBound => yawVel = 0 /\ pitchVel = 0)

\* momentum that was non-zero at release has come to rest
C2_Witness == frames = DecayBound /\ yawVel = 0 /\ pitchVel = 0 /\ yaw # -lastX * sensitivity

\* C3: every wheel event sets targetRadius to
\* clamp(targetRadius + 0.35 * deltaY, 10, 400) and leaves radiusCam alone;
\* targetRadius is within [10, 400] in every state.
C3_WheelClampsTarget ==
    /\ [](minZoom <= targetRadius /\ targetRadius <= maxZoom)
    /\ [][ \A d \in WheelDeltas : Wheel(d) =>
             /\ targetRadius' =
                  (IF targetRadius + 35000 * d > 40000000 THEN 40000000
                   ELSE IF targetRadius + 35000 * d < 1000000 THEN 1000000
                   ELSE targetRadius + 35000 * d)
             /\ radiusCam' = radiusCam ]_vars

\* a wheel event was clamped at the far limit while the camera is elsewhere
C3_Witness == targetRadius = maxZoom /\ radiusCam # targetRadius

C5_ZoomNeverOvershoots ==
    [][ IsRenderStep =>
          /\ Min(radiusCam, targetRadius) <= radiusCam'
          /\ radiusCam' <= Max(radiusCam, targetRadius)
          /\ Sgn(targetRadius - radiusCam') * Sgn(targetRadius - radiusCam) >= 0 ]_vars

\* a frame has moved radiusCam part of the way to a different target
C5_Witness ==
    /\ frames > 0
    /\ radiusCam # 12000000
    /\ radiusCam # targetRadius

\* C14 (as claimed): yaw, pitch, yawVel, pitchVel, radiusCam and
\* targetRadius change only in a render frame.
C14_OnlyRenderMutatesCamera ==
    [][ (\/ yaw' # yaw \/ pitch' # pitch
         \/ yawVel' # yawVel \/ pitchVel' # pitchVel
         \/ radiusCam' # radiusCam \/ targetRadius' # targetRadius)
        => IsRenderStep ]_vars

\* C14 (amended): radiusCam changes only in a render frame; targetRadius
\* changes only in the wheel handler; yaw and pitch change only in a render
\* frame or in a pointer-move during a drag; yawVel and pitchVel change only
\* in a render frame, in mousedown or in a pointer-move during a drag.
C14_CameraWriters ==
    [][ /\ radiusCam' # radiusCam => IsRenderStep
        /\ targetRadius' # targetRadius => DoWheel
        /\ (yaw' # yaw \/ pitch' # pitch)
              => IsRenderStep \/ (dragging /\ DoMouseMove)
        /\ (yawVel' # yawVel \/ pitchVel' # pitchVel)
              => IsRenderStep \/ DoMouseDown \/ (dragging /\ DoMouseMove)
      ]_vars

\* before any frame the handlers have turned the camera, left momentum and
\* requested a zoom, and the zoom distance is still the initial one
C14_Witness ==
    /\ frames = 0
    /\ yaw # 0 /\ pitch # 0
    /\ yawVel # 0 /\ pitchVel # 0
    /\ targetRadius # 12000000
    /\ radiusCam = 12000000

\* C15 (as claimed): when the last pointer-move before mouseup changed yaw
\* and pitch by non-zero amounts (-lastX * sensitivity and lastY *
\* sensitivity for a drag that started at the origin), the first frame after
\* the release changes yaw in the direction of that move and pitch in the
\* direction of that move, each by less than the move did.
C15_MomentumFollowsGesture ==
    [][ (IsRenderStep /\ frames = 0 /\ ~dragging /\ lastX # 0 /\ lastY # 0)
        => /\ Sgn(yaw' - yaw) = Sgn(-lastX * sensitivity)
           /\ Sgn(pitch' - pitch) = Sgn(lastY * sensitivity)
           /\ Abs(yaw' - yaw) < Abs(lastX * sensitivity)
           /\ Abs(pitch' - pitch) < Abs(lastY * sensitivity) ]_vars

\* C19 (as claimed): from a camera state with or without the button held,
\* with no further input, yaw and pitch stop changing after finitely many
\* frames: no frame from the DecayBound-th on changes them.
C19_EventualRest ==
    [][ (IsRenderStep /\ frames >= DecayBound)
        => yaw' = yaw /\ pitch' = pitch ]_vars

\* C20: the pitch every frame builds the orientation quaternion from is
\* within [-(pi/2 - 0.001), pi/2 - 0.001] whatever pointer events preceded
\* the frame: it is the frame's integrated pitch (momentum, or 20% of it
\* during a drag) after the clamp.
C20_ViewPitchClamped ==
    /\ [](PitchInLimit(viewPitch))
    /\ [][ IsRenderStep =>
             /\ viewPitch' = Max(-pitchLimit, Min(pitchLimit,
                    pitch + (IF dragging THEN Scale(pitchVel, 2, 10) ELSE pitchVel)))
             /\ viewPitch' = pitch' ]_vars

\* a frame built the view at the lower limit from a raw pitch beyond it, and
\* a later pointer-move has changed the raw pitch again
C20_Witness ==
    /\ frames > 0
    /\ viewPitch = -pitchLimit
    /\ dragging
    /\ pitch # viewPitch

(***************************************************************************)
(* Geometry properties                                                     *)
(***************************************************************************)
\* the k-th triangle (k from 0) of an index array
Tri(ix, k) == <<ix[3 * k + 1], ix[3 * k + 2], ix[3 * k + 3]>>

\* b lists the vertices of a in the opposite cyclic order
ReversedWinding(a, b) ==
    b \in {<<a[3], a[2], a[1]>>, <<a[2], a[1], a[3]>>, <<a[1], a[3], a[2]>>}

SphereCounts(m, latBands, longBands) ==
    /\ Len(m.positions) = 3 * (latBands + 1) * (longBands + 1)
    /\ Len(m.normals) = 3 * (latBands + 1) * (longBands + 1)
    /\ Len(m.uvs) = 2 * (latBands + 1) * (longBands + 1)
    /\ Len(m.indices) = latBands * longBands * 6

\* C6: for latBands, longBands >= 3 createSphere returns
\* (latBands+1)*(longBands+1) vertices (positions, normals, UVs) and
\* latBands*longBands*6 indices, with invert false and with invert true.
C6_SphereCounts ==
    (geomIn.latBands >= 3 /\ geomIn.longBands >= 3) =>
        /\ geomPc >= 1 => SphereCounts(sphere, geomIn.latBands, geomIn.longBands)
        /\ geomPc >= 2 => SphereCounts(skySphere, geomIn.latBands, geomIn.longBands)

\* both variants are built for unequal band counts
C6_Witness ==
    /\ geomPc >= 2
    /\ geomIn.latBands >= 3 /\ geomIn.longBands > geomIn.latBands
    /\ Len(skySphere.indices) > 0

\* C7: the inverted sphere differs from the plain one only in that every
\* normal component is negated and every triangle lists the same three
\* vertices in the opposite cyclic order; positions and UVs are identical.
C7_InvertNegatesAndReverses ==
    geomPc >= 2 =>
        /\ skySphere.positions = sphere.positions
        /\ skySphere.uvs = sphere.uvs
        /\ Len(skySphere.normals) = Len(sphere.normals)
        /\ \A i \in DOMAIN sphere.normals :
               skySphere.normals[i] = FNeg(sphere.normals[i])
        /\ Len(skySphere.indices) = Len(sphere.indices)
        /\ \A k \in 0..(Len(sphere.indices) \div 3 - 1) :
               ReversedWinding(Tri(sphere.indices, k), Tri(skySphere.indices, k))

\* both variants exist, with triangles and with a non-zero normal to negate
C7_Witness ==
    /\ geomPc >= 2
    /\ Len(sphere.indices) >= 6
    /\ \E i \in DOMAIN sphere.normals :
           ~IsNaN(sphere.normals[i]) /\ sphere.normals[i] > 0
                                     /\ skySphere.normals[i] < 0

\* vertex v (from 0) of the ring is at distance r from the Y axis, up to rounding
RingAtRadius(v, r) ==
    LET x == ring.positions[3 * v + 1]
        z == ring.positions[3 * v + 3]
    IN  Abs(x * x + z * z - r * r) <= 2 * Abs(r) * RadialTol + RadialTol * RadialTol

\* C8: for segments >= 3 createRing returns 2*(segments+1) vertices and
\* 6*segments indices; vertex 2i is the inner-edge vertex
\* (innerR*cos, 0, innerR*sin) with UV.x = 0 and vertex 2i+1 the outer-edge
\* vertex (outerR*cos, 0, outerR*sin) with UV.x = 1 at the same angle.
C8_RingLayout ==
    (geomPc >= 3 /\ geomIn.segments >= 3) =>
        /\ Len(ring.positions) = 3 * 2 * (geomIn.segments + 1)
        /\ Len(ring.uvs) = 2 * 2 * (geomIn.segments + 1)
        /\ Len(ring.indices) = 6 * geomIn.segments
        /\ \A i \in 0..geomIn.segments :
              LET th == RingTheta(geomIn.segments, i)
                  e == 2 * i
                  o == 2 * i + 1
              IN  /\ ring.positions[3 * e + 1] = FMul(geomIn.innerR, MathCos(th))
                  /\ ring.positions[3 * e + 2] = 0
                  /\ ring.positions[3 * e + 3] = FMul(geomIn.innerR, MathSin(th))
                  /\ ring.uvs[2 * e + 1] = 0
                  /\ ring.positions[3 * o + 1] = FMul(geomIn.outerR, MathCos(th))
                  /\ ring.positions[3 * o + 2] = 0
                  /\ ring.positions[3 * o + 3] = FMul(geomIn.outerR, MathSin(th))
                  /\ ring.uvs[2 * o + 1] = FX
                  /\ RingAtRadius(e, geomIn.innerR)
                  /\ RingAtRadius(o, geomIn.outerR)

\* a ring with distinct inner and outer radii has been generated
C8_Witness ==
    /\ geomPc = 3
    /\ geomIn.segments >= 3
    /\ geomIn.innerR > 0
    /\ Len(ring.indices) > 0

\* a returned mesh has no NaN coordinate and at least one triangle
MeshUsable(m) ==
    /\ \A i \in DOMAIN m.positions : ~IsNaN(m.positions[i])
    /\ Len(m.indices) >= 3

\* C10: given a zero or negative band / segment count or radius the
\* generators never return a mesh with NaN coordinates or without triangles.
C10_DegenerateInputsHandled ==
    /\ (geomPc >= 1 /\ (geomIn.latBands <= 0 \/ geomIn.longBands <= 0
                        \/ geomIn.radius <= 0)) => MeshUsable(sphere)
    /\ (geomPc >= 2 /\ (geomIn.latBands <= 0 \/ geomIn.longBands <= 0
                        \/ geomIn.radius <= 0)) => MeshUsable(skySphere)
    /\ (geomPc >= 3 /\ (geomIn.segments <= 0 \/ geomIn.outerR <= 0))
           => MeshUsable(ring)

(***************************************************************************)
(* Scene properties                                                        *)
(***************************************************************************)
\* a frame has run: drawn holds what it computed
FrameDrawn == frames > 0 /\ drawn.bodies # <<>>

C12_PauseFreezesBodies ==
    [][ /\ (IsRenderStep /\ paused) => simTime' = simTime
        /\ simTime' >= simTime
        /\ (IsRenderStep /\ paused /\ FrameDrawn /\ drawn.paused)
               => drawn'.bodies = drawn.bodies
      ]_vars

MoonPairs ==
    UNION { { q \in {i} \X (DOMAIN planets[i].moons) \X (DOMAIN planets[i].moons) :
                q[2] < q[3] } : i \in DOMAIN planets }

\* C16 (as claimed): in every frame, at every simulation time including 0,
\* two moons of one planet with different indices are at different orbital
\* angles around the parent.
C16_MoonsNeverShareAngle ==
    FrameDrawn =>
        \A q \in MoonPairs :
            drawn.bodies[q[1]].moons[q[2]].mangle
                # drawn.bodies[q[1]].moons[q[3]].mangle

\* C16 (amended): the moon index scales the angular speed and is no phase
\* offset: in a frame at simulation time 0 every moon is at angle 0, on the
\* parent's +x side at its arm's length; in a frame with positive simulation
\* time and time-scale the moons of one planet are at different angles.
C16_MoonIndexScalesSpeed ==
    FrameDrawn =>
        /\ drawn.t = 0 =>
              \A i \in DOMAIN planets : \A j \in DOMAIN planets[i].moons :
                  /\ drawn.bodies[i].moons[j].mangle = 0
                  /\ drawn.bodies[i].moons[j].pos =
                        <<drawn.bodies[i].pos[1] + planets[i].moons[j].visualDist
                              + FMul(planets[i].visualSize, 6000),
                          0, drawn.bodies[i].pos[3]>>
        /\ (drawn.t > 0 /\ drawn.timeScale > 0) =>
              \A q \in MoonPairs :
                  drawn.bodies[q[1]].moons[q[2]].mangle
                      # drawn.bodies[q[1]].moons[q[3]].mangle

\* a frame at simulation time 0 drew two moons of one planet at one angle
C16_Witness ==
    /\ FrameDrawn
    /\ drawn.t = 0
    /\ \E q \in MoonPairs :
           /\ drawn.bodies[q[1]].moons[q[2]].mangle = 0
           /\ drawn.bodies[q[1]].moons[q[3]].mangle = 0
           /\ drawn.bodies[q[1]].moons[q[2]].pos[3]
                 = drawn.bodies[q[1]].moons[q[3]].pos[3]

\* C17: a click while body B is hovered sets lockedPlanet to B unless the
\* lock already is on a body of B's name, and then clears it; a click while
\* nothing is hovered leaves lockedPlanet alone; no step but a click changes
\* lockedPlanet; lockedPlanet is null, the Sun or a planet, never a moon.
C17_LockToggle ==
    /\ [][ /\ Click =>
                lockedPlanet' =
                    (IF hoveredPlanet = Null THEN lockedPlanet
                     ELSE IF lockedPlanet = hoveredPlanet THEN Null
                     ELSE hoveredPlanet)
           /\ lockedPlanet' # lockedPlanet => Click /\ hoveredPlanet # Null
         ]_vars
    /\ [](lockedPlanet \in {Null, "Sun"} \cup PlanetNames)
    /\ [](lockedPlanet \notin MoonNames)

\* the camera is locked to a planet and a later frame found the Sun hovered
C17_Witness ==
    /\ frames = 2
    /\ lockedPlanet \in PlanetNames
    /\ hoveredPlanet = "Sun"

\* the position the frame that just ran computed for the locked body, the
\* origin without a lock or with the lock on the Sun
LockedBodyPos ==
    IF lockedPlanet \in PlanetNames
    THEN drawn'.bodies[CHOOSE i \in DOMAIN planets :
                           planets[i].name = lockedPlanet].pos
    ELSE <<0, 0, 0>>

\* C18: a click leaves cameraTarget unchanged, as does every step but a
\* frame; a frame moves cameraTarget 12% of the way from its previous value
\* to the locked planet's position in that frame, or to the origin when
\* nothing or the Sun is locked; without a lock cameraTarget is within
\* TargetEps of the origin FollowBound frames after the last input.
C18_TargetNeverSnaps ==
    /\ [][ /\ Click => cameraTarget' = cameraTarget
           /\ cameraTarget' # cameraTarget => IsRenderStep
           /\ IsRenderStep =>
                 \A k \in 1..3 :
                     cameraTarget'[k] - cameraTarget[k] =
                         Scale(LockedBodyPos[k] - cameraTarget[k], 12, 100)
         ]_vars
    /\ []((lockedPlanet = Null /\ frames >= ClickWindow + FollowBound)
             => \A k \in 1..3 : Abs(cameraTarget[k]) <= TargetEps)

\* the target had left the origin for a planet and has settled after the
\* lock was released
C18_Witness ==
    /\ frames = ClickWindow + FollowBound
    /\ lockedPlanet = Null
    /\ cameraTarget # <<0, 0, 0>>
    /\ \A k \in 1..3 : Abs(cameraTarget[k]) <= TargetEps

(***************************************************************************)
(* Properties of the time controls, the frame loop and the textures        *)
(***************************************************************************)
\* C21: a frame that runs unpaused, the first one after a Resume click
\* included, advances simTime by no more than the real time that passed
\* since the later of the last pause-button click and the previous frame,
\* so never by the time spent paused; a paused frame leaves simTime alone.
C21_ResumeNoJump ==
    [][IsRenderStep =>
          IF paused
          THEN simTime' = simTime
          ELSE /\ simTime' >= simTime
               /\ simTime' - simTime <= clock - lastSync]_vars

\* the first frame ever ran after a Resume click, counted the time since
\* that click and not all the time since load
C21_Witness ==
    /\ frames = 1 /\ ~paused /\ ~drawn.paused
    /\ drawn.t = simTime
    /\ 0 < simTime /\ simTime < clock

\* C22: an 'input' event of the time-dilation slider changes pendingOrbit
\* and the label and nothing else; a frame computes with orbitSlowdown,
\* not with the pending value; orbitSlowdown changes only in a step that
\* is the slider's 'change' event or Reset, and after such a step
\* pendingOrbit and the label equal orbitSlowdown.
C22_PendingAppliedOnChange ==
    [][/\ (\E v \in OrbitValues : SliderInput(v))
           => UNCHANGED <<orbitSlowdown, simTime, lastRealTime, paused,
                          sunEmissive, drawn, cameraTarget>>
       /\ IsRenderStep
           => /\ drawn'.timeScale = orbitSlowdown
              /\ UNCHANGED <<orbitSlowdown, pendingOrbit, orbitLabel>>
       /\ orbitSlowdown' # orbitSlowdown
           => /\ (\E v \in OrbitValues : SliderChange(v)) \/ ResetClick
              /\ pendingOrbit' = orbitSlowdown'
              /\ orbitLabel' = orbitSlowdown']_vars

\* the slider is held at a value the frames do not use: the last frame ran
\* with the applied time-scale, which a 'change' event had set earlier
C22_Witness ==
    /\ pendingOrbit # orbitSlowdown
    /\ orbitLabel = pendingOrbit
    /\ orbitSlowdown # defaultOrbit
    /\ frames > 0 /\ drawn.timeScale = orbitSlowdown

\* C23: the frame loop never doubles and never stops: in every reachable
\* state exactly one render callback is requested and not yet run, so every
\* frame has left exactly one successor and no event handler has requested
\* or cancelled one.
C23_OneFramePending == rafPending = 1

\* two frames have run among a pause click, a drag and a sun-slider event
C23_Witness ==
    /\ frames >= 2 /\ rafPending = 1
    /\ paused /\ dragging /\ sunEmissive # defaultSunEmissive

\* C24: a texture handle holds the white placeholder as long as its image
\* is loading; its content changes only in an onload step, from the
\* placeholder to the image, and never afterwards; a failed load leaves the
\* placeholder for good; frames run in any of these states and touch no
\* handle.
C24_TextureSwapsOnce ==
    [][\A url \in TextureUrls :
          /\ imgState[url] = "loading" => texture[url] = Placeholder
          /\ texture'[url] # texture[url]
              => /\ texture[url] = Placeholder
                 /\ texture'[url] = ImageOf(url)
                 /\ imgState[url] = "loading" /\ imgState'[url] = "loaded"
          /\ imgState[url] = "failed"
              => texture'[url] = Placeholder /\ imgState'[url] = "failed"
          /\ imgState[url] = "loaded"
              => texture'[url] = ImageOf(url) /\ imgState'[url] = "loaded"
          /\ IsRenderStep
              => /\ rafPending' > 0
                 /\ UNCHANGED <<texture, imgState>>]_vars

\* frames have run, one load has failed and its handle holds the
\* placeholder, another load is still under way
C24_Witness ==
    /\ frames > 0
    /\ \E url, other \in TextureUrls :
           /\ imgState[url] = "failed" /\ texture[url] = Placeholder
           /\ imgState[other] = "loading"

\* the candidates of the hover search in the order the frame visits them
Candidates == <<"Sun">> \o [i \in DOMAIN planets |-> planets[i].name]

\* candidate i is on the canvas and the pointer is inside its pick radius
UnderPointer(proj, px, py, i) ==
    /\ proj[Candidates[i]].scr # NoPoint
    /\ PointerDistSq(proj[Candidates[i]].scr, px, py)
         < RadiusPxSq(proj[Candidates[i]].scr, proj[Candidates[i]].scr2)

\* h is what a nearest-candidate-under-radius search has to answer
NearestUnderRadius(proj, px, py, h) ==
    LET under == {i \in DOMAIN Candidates : UnderPointer(proj, px, py, i)}
        d(i) == PointerDistSq(proj[Candidates[i]].scr, px, py)
    IN  IF under = {} THEN h = Null
        ELSE \E i \in under :
                /\ h = Candidates[i]
                /\ \A j \in under : d(i) < d(j) \/ (d(i) = d(j) /\ i <= j)

\* C25: at the end of every frame hoveredPlanet is null if the pointer is
\* inside the pick radius of no candidate, else the candidate inside its
\* own radius that is nearest to the pointer, the earlier one of equally
\* near candidates; it is never a moon; the tooltip is displayed after the
\* frame exactly when hoveredPlanet is not null, and then shows that name
\* 8 px right of and below the body.
C25_NearestUnderRadius ==
    [][\A proj \in HoverProjections :
          (IsRenderStep /\ Render(proj))
          => /\ NearestUnderRadius(proj, pointerX, pointerY, hoveredPlanet')
             /\ hoveredPlanet' \notin MoonNames
             /\ (tooltip'.display = "block") = (hoveredPlanet' # Null)
             /\ hoveredPlanet' # Null
                 => /\ tooltip'.text = hoveredPlanet'
                    /\ tooltip'.left = proj[hoveredPlanet'].scr[1] + 8
                    /\ tooltip'.top = proj[hoveredPlanet'].scr[2] + 8]_vars

\* the tooltip shows Earth although Mars was drawn just as near: a frame
\* resolved a tie of two planets for the earlier one
C25_Witness ==
    /\ frames > 0
    /\ hoveredPlanet = "Earth"
    /\ tooltip = [display |-> "block", left |-> 305, top |-> 1208,
                  text |-> "Earth"]
    /\ pointerX = 300 /\ pointerY = 1200

\* C26: in every reachable state radiusCam lies within [minZoom, maxZoom]
\* = [10, 400], and so does targetRadius, which every frame draws
\* radiusCam towards.
C26_RadiusCamInRange ==
    /\ minZoom <= radiusCam /\ radiusCam <= maxZoom
    /\ minZoom <= targetRadius /\ targetRadius <= maxZoom

\* zoomed in as far as the wheel allows: frames have brought radiusCam
\* from 120 to less than 11, and it is still not below 10
C26_Witness ==
    /\ frames > 0
    /\ targetRadius = minZoom
    /\ radiusCam < minZoom + 100000

\* rounding allowed when two computed angles are compared (1e-4 rad)
AngleTol == 2

\* the angle of every planet advanced from the frame before by the frame's
\* own time advance at the frame's rate, up to rounding
AnglesAdvanceByFrameTime ==
    \A i \in DOMAIN planets :
        Abs((drawn'.bodies[i].angle - drawn.bodies[i].angle)
            - PlanetAngle(planets[i], drawn'.t - drawn.t, drawn'.timeScale))
          <= AngleTol

\* C27 (as claimed): in the first frame after the time-scale was changed
\* at a simTime above 0, the orbital angle of every planet differs from
\* its angle in the frame before only by the frame's own time advance at
\* the new rate.
C27_NoJumpOnRateChange ==
    [][(IsRenderStep /\ FrameDrawn /\ drawn.t > 0
          /\ orbitSlowdown # drawn.timeScale)
       => AnglesAdvanceByFrameTime]_vars

\* a step that is no frame and in which the drag went on
IsMoveStep == dragging /\ dragging' /\ frames' = frames

\* C28: while the button is held every pointer move is applied at once and
\* on top of the moves before it: the move changes yaw by -sensitivity
\* times its dx and pitch by +sensitivity times its dy and sets the
\* momentum from its own dx and dy alone; so as long as no frame has run,
\* yaw and pitch are -sensitivity and +sensitivity times the sums of the
\* dx and dy of all the moves since the button went down at the origin,
\* which are the coordinates of the last move.
C28_DragMovesAccumulate ==
    [][/\ (dragging /\ frames = 0)
           => yaw = -sensitivity * lastX /\ pitch = sensitivity * lastY
       /\ IsMoveStep
           => /\ lastX' = pointerX' /\ lastY' = pointerY'
              /\ yaw' - yaw = -sensitivity * (lastX' - lastX)
              /\ pitch' - pitch = sensitivity * (lastY' - lastY)
              /\ yawVel' = DragMomentum(lastX' - lastX)
              /\ pitchVel' = DragMomentum(lastY' - lastY)]_vars

\* before any frame the pointer has come back to where the button went
\* down: the moves cancel out in yaw and pitch and the momentum is that of
\* the way back
C28_Witness ==
    /\ frames = 0 /\ dragging
    /\ lastX = 0 /\ lastY = 0 /\ yaw = 0 /\ pitch = 0
    /\ yawVel # 0 /\ pitchVel # 0

\* C29: the dragging flag changes only in a mousedown step (to true) and
\* in a mouseup or mouseleave step (to false), so it is true exactly from a
\* mousedown to the next mouseup or mouseleave; a pointer move while the
\* flag is false leaves yaw, pitch, yawVel, pitchVel, radiusCam and
\* targetRadius alone; mousedown sets yawVel and pitchVel to 0 and keeps
\* yaw and pitch; mouseup and mouseleave change the flag and nothing else.
C29_DragMode ==
    [][/\ dragging' # dragging
           => IF dragging'
              THEN \E p \in ClientPts : MouseDown(p[1], p[2])
              ELSE MouseUp \/ MouseLeave
       /\ (\E p \in ClientPts : MouseDown(p[1], p[2]))
           => /\ dragging' /\ yawVel' = 0 /\ pitchVel' = 0
              /\ UNCHANGED <<yaw, pitch, radiusCam, targetRadius>>
       /\ (MouseUp \/ MouseLeave)
           => /\ ~dragging'
              /\ UNCHANGED <<yaw, pitch, yawVel, pitchVel, radiusCam,
                             targetRadius, lastX, lastY, frames>>
              /\ UNCHANGED sceneVars
       /\ (~dragging /\ pointerVars' # pointerVars)
           => UNCHANGED camVars]_vars

\* the button was released after a drag and the pointer went on: the
\* momentum of the drag is still there, the flag is false and the last
\* drag position is not the pointer's
C29_Witness ==
    /\ ~dragging /\ frames = 0
    /\ yawVel # 0 /\ pitchVel # 0
    /\ pointerX # lastX

\* the set of values of a sequence
Range(a) == {a[k] : k \in DOMAIN a}

\* C30 (as claimed): for any band counts >= 1 the six stored indices of the
\* sphere cell (lat, lon) are that cell's four corners lat*(L+1)+lon, that
\* +1, that +(L+1) and that +(L+2) with L = longBands, every stored index
\* is below the vertex count (latBands+1)*(longBands+1), and the 16-bit
\* storage alters none; every stored ring index is below 2*(segments+1).
C30_IndicesValid ==
    /\ idxCell.kind = "sphere"
       => LET L == geomIn.longBands
              first == idxCell.lat * (L + 1) + idxCell.lon
          IN  /\ Len(idxCell.indices) = 6
              /\ Range(idxCell.indices)
                   = {first, first + 1, first + L + 1, first + L + 2}
              /\ \A k \in DOMAIN idxCell.indices :
                     idxCell.indices[k] < (geomIn.latBands + 1) * (L + 1)
              /\ idxCell.indices
                   = SphereCell(L, idxCell.invert, idxCell.lat, idxCell.lon)
    /\ idxCell.kind = "ring"
       => \A k \in DOMAIN idxCell.indices :
              idxCell.indices[k] < 2 * (geomIn.segments + 1)

====
